---- MODULE Spec2Model ----
(***************************************************************************)
(* A model of dummy_collector.py: one batch run of main().  The argument   *)
(* vector and the result of glob.glob are the inputs; every other variable *)
(* is a local of main() or one of the two output files.                    *)
(*                                                                         *)
(* Python values are encoded as follows.                                   *)
(*   str            a TLA+ string                                          *)
(*   Optional[str]  None == <<>>, the string s == <<s>>                    *)
(*   list           a sequence                                             *)
(*   dict           a sequence of [k |-> key, v |-> value] in insertion    *)
(*                  order (Python dicts keep insertion order)              *)
(*   float          an integer; a mean is an exact fraction                *)
(*   a JSON value   a record [t, n, d, s, a], see JNum .. JBig             *)
(***************************************************************************)
EXTENDS Integers, Sequences, FiniteSets, TLC

VARIABLES
    argv,          \* sys.argv[1:]
    glob_result,   \* what glob.glob(pattern, recursive=True) yields
    pc,            \* position in main()
    args,          \* the namespace built by parse_args
    outdir_exists, \* output_dir.mkdir has run
    cli_txt,       \* lines of <output_dir>/cli.txt, None until written
    data_files,    \* the list returned by find_data_files
    idx,           \* index of the next element of data_files in the loop
    values,        \* main's values list
    file_info,     \* main's file_info list
    aggregated,    \* the dict returned by aggregate_results, None until called
    result,        \* main's result dict before prefixing, None until built
    metrics_json,  \* the dict dumped to <output_dir>/metrics.json, None until written
    exit_code,     \* process exit status, None while running
    trace          \* history: the calls main() has made so far, in order

vars == <<argv, glob_result, pc, args, outdir_exists, cli_txt, data_files, idx,
          values, file_info, aggregated, result, metrics_json, exit_code, trace>>

(***************************************************************************)
(* Bounds of the model.                                                    *)
(***************************************************************************)
MaxFiles == 2   \* glob matches per run
MaxArgs == 4    \* free tokens of the argument vector (parser runs)
MaxLen == 3     \* values per run in the aggregation runs
MaxValue == 2   \* numeric metric values range over -MaxValue .. MaxValue

(***************************************************************************)
(* Python built-ins.                                                       *)
(***************************************************************************)
None == <<>>
Some(x) == <<x>>

\* str.startswith
StartsWith(s, p) == Len(s) >= Len(p) /\ SubSeq(s, 1, Len(p)) = p

RECURSIVE LStrip(_, _)
\* str.lstrip(c) for a one-character c
LStrip(s, c) ==
    IF Len(s) > 0 /\ SubSeq(s, 1, 1) = c
    THEN LStrip(SubSeq(s, 2, Len(s)), c)
    ELSE s

RECURSIVE Replace(_, _, _)
\* str.replace(a, b) for a one-character a
Replace(s, a, b) ==
    IF Len(s) = 0 THEN ""
    ELSE (IF SubSeq(s, 1, 1) = a THEN b ELSE SubSeq(s, 1, 1))
         \o Replace(SubSeq(s, 2, Len(s)), a, b)

RECURSIVE Join(_, _)
\* sep.join(list of str)
Join(sep, l) ==
    IF l = <<>> THEN ""
    ELSE IF Len(l) = 1 THEN l[1]
    ELSE l[1] \o sep \o Join(sep, Tail(l))

\* k in d
DictHas(d, k) == \E i \in 1..Len(d) : d[i].k = k

\* d[k]
DictGet(d, k) == d[CHOOSE i \in 1..Len(d) : d[i].k = k].v

\* d[k] = v: a new key goes last, an existing key keeps its position
DictSet(d, k, v) ==
    IF DictHas(d, k)
    THEN [i \in 1..Len(d) |-> IF d[i].k = k THEN [k |-> k, v |-> v] ELSE d[i]]
    ELSE Append(d, [k |-> k, v |-> v])

(***************************************************************************)
(* parse_dynamic_args                                                      *)
(***************************************************************************)
RECURSIVE GroupArgs(_, _, _, _)
\* The while loop: i is the 1-based index of the next token.
GroupArgs(av, i, grouped_args, current_flag) ==
    IF i > Len(av) THEN grouped_args
    ELSE LET arg == av[i] IN
         IF StartsWith(arg, "--")
         THEN GroupArgs(av, i + 1, DictSet(grouped_args, arg, <<>>), Some(arg))
         ELSE IF current_flag # None
         THEN GroupArgs(av, i + 1,
                        DictSet(grouped_args, current_flag[1],
                                Append(DictGet(grouped_args, current_flag[1]), arg)),
                        current_flag)
         ELSE LET g == IF DictHas(grouped_args, "__positional__")
                       THEN grouped_args
                       ELSE DictSet(grouped_args, "__positional__", <<>>)
              IN GroupArgs(av, i + 1,
                           DictSet(g, "__positional__",
                                   Append(DictGet(g, "__positional__"), arg)),
                           current_flag)

parse_dynamic_args(av) == GroupArgs(av, 1, <<>>, None)

(***************************************************************************)
(* parse_args                                                              *)
(***************************************************************************)
AggregationModes == <<"avg", "max", "min", "sum", "all">>

InModes(s) == \E i \in 1..Len(AggregationModes) : AggregationModes[i] = s

DefaultArgs ==
    [input_pattern |-> "**/*_data.json",
     output_dir    |-> None,
     metric_key    |-> "result",
     aggregation   |-> "all",
     debug         |-> FALSE,
     prefix        |-> "",
     collector     |-> None,
     extra         |-> <<>>,
     name          |-> None,
     dynamic_args  |-> <<>>]

\* The key under which an unrecognised flag is stored.  The code computes
\* flag_name = flag.lstrip("-").replace("-", "_") and then stores the entry
\* under flag itself.
DynamicKey(flag) == flag

\* The values args.extra takes from one group.
ExtendExtra(extra, vals) == extra \o vals

\* One iteration of the loop over dynamic_args.items().
ApplyFlag(a, flag, vals) ==
    LET flag_name == Replace(LStrip(flag, "-"), "-", "_") IN
    IF flag = "--input-pattern" THEN
        [a EXCEPT !.input_pattern = IF vals # <<>> THEN vals[1] ELSE a.input_pattern]
    ELSE IF flag = "--output_dir" THEN
        [a EXCEPT !.output_dir = IF vals # <<>> THEN Some(vals[1]) ELSE None]
    ELSE IF flag = "--metric-key" THEN
        [a EXCEPT !.metric_key = IF vals # <<>> THEN vals[1] ELSE a.metric_key]
    ELSE IF flag = "--aggregation" THEN
        IF vals # <<>> /\ InModes(vals[1])
        THEN [a EXCEPT !.aggregation = vals[1]]
        ELSE a
    ELSE IF flag = "--debug" THEN
        [a EXCEPT !.debug = TRUE]
    ELSE IF flag = "--prefix" THEN
        [a EXCEPT !.prefix = IF vals # <<>> THEN vals[1] ELSE ""]
    ELSE IF flag = "--collector" THEN
        [a EXCEPT !.collector = IF vals # <<>> THEN Some(vals[1]) ELSE None]
    ELSE IF flag = "--extra" THEN
        [a EXCEPT !.extra = ExtendExtra(a.extra, vals)]
    ELSE IF flag = "--name" THEN
        [a EXCEPT !.name = IF vals # <<>> THEN Some(vals[1]) ELSE None]
    ELSE
        [a EXCEPT !.dynamic_args = DictSet(a.dynamic_args, DynamicKey(flag), vals)]

RECURSIVE ApplyFlags(_, _, _)
ApplyFlags(a, groups, i) ==
    IF i > Len(groups) THEN a
    ELSE ApplyFlags(ApplyFlag(a, groups[i].k, groups[i].v), groups, i + 1)

\* The namespace at the validation step.
BuildArgs(av) == ApplyFlags(DefaultArgs, parse_dynamic_args(av), 1)

\* A variant of OutputDirMissing that never reports a missing directory.
OutputDirMissing_never(a) == FALSE

\* `not args.output_dir`: None and the empty string are falsy.
OutputDirMissing(a) == a.output_dir = None \/ a.output_dir = Some("")

(***************************************************************************)
(* JSON values, as json.load returns them and json.dump writes them.       *)
(* A number is the fraction n/d in lowest terms (d = 1 for the inputs).    *)
(***************************************************************************)
JNum(n)  == [t |-> "number", n |-> n, d |-> 1, s |-> "", a |-> <<>>]
JFrac(n, d) == [t |-> "number", n |-> n, d |-> d, s |-> "", a |-> <<>>]
JStr(s)  == [t |-> "string", n |-> 0, d |-> 1, s |-> s, a |-> <<>>]
JNull    == [t |-> "null", n |-> 0, d |-> 1, s |-> "", a |-> <<>>]
JBool(b) == [t |-> "bool", n |-> IF b THEN 1 ELSE 0, d |-> 1, s |-> "", a |-> <<>>]
JArr(items) == [t |-> "array", n |-> 0, d |-> 1, s |-> "", a |-> items]
JObj(members) == [t |-> "object", n |-> 0, d |-> 1, s |-> "", a |-> members]
\* An integer literal too large for a double (say 400 digits): json.load
\* returns it as a Python int of arbitrary precision.
JBig     == [t |-> "bigint", n |-> 0, d |-> 1, s |-> "", a |-> <<>>]

Member(k, v) == [k |-> k, v |-> v]

(***************************************************************************)
(* find_data_files: glob.glob yields paths; only regular files are kept.   *)
(* An entry of glob_result is [path, is_file, kind, doc]: kind says        *)
(* whether open() and json.load succeed, doc is the parsed document.       *)
(***************************************************************************)
\* A variant of find_data_files without the is_file test.
find_data_files_unfiltered(matches) == matches

find_data_files(matches) == SelectSeq(matches, LAMBDA e : e.is_file)

(***************************************************************************)
(* load_result_from_file                                                   *)
(***************************************************************************)
NA == JStr("NA")

\* A variant of HasError that looks up a misspelt key.
HasError_wrongKey(data) == DictHas(data.a, "errors") /\ DictGet(data.a, "errors") # JNull

\* The error-field test of an object.
HasError(data) == DictHas(data.a, "error") /\ DictGet(data.a, "error") # JNull

load_result_from_file(e, metric_key) ==
    IF e.kind = "unreadable" THEN NA         \* open raises OSError: except Exception
    ELSE IF e.kind = "malformed" THEN NA     \* json.JSONDecodeError
    ELSE LET data == e.doc IN
         IF data.t # "object"
         THEN \* `"error" in data` raises TypeError on a number, bool or null;
              \* on a list or str it is a membership test and a hit makes
              \* data["error"] / data[metric_key] raise TypeError: NA each way.
              NA
         ELSE IF HasError(data) THEN NA
         ELSE IF DictHas(data.a, metric_key) THEN DictGet(data.a, metric_key)
         ELSE NA

(***************************************************************************)
(* float(value).  The result is [exc, n]: exc = "" and the number n, or    *)
(* the name of the exception raised.  Of the strings float() accepts, the  *)
(* model reads an optional "-" followed by decimal digits.                 *)
(***************************************************************************)
Digits == <<"0", "1", "2", "3", "4", "5", "6", "7", "8", "9">>

IsDigit(c) == \E i \in 1..Len(Digits) : Digits[i] = c

DigitVal(c) == (CHOOSE i \in 1..Len(Digits) : Digits[i] = c) - 1

RECURSIVE AllDigits(_)
AllDigits(s) ==
    Len(s) = 0 \/ (IsDigit(SubSeq(s, 1, 1)) /\ AllDigits(SubSeq(s, 2, Len(s))))

RECURSIVE DigitsValue(_, _)
DigitsValue(s, acc) ==
    IF Len(s) = 0 THEN acc
    ELSE DigitsValue(SubSeq(s, 2, Len(s)), acc * Len(Digits) + DigitVal(SubSeq(s, 1, 1)))

FloatOfStr(s) ==
    LET neg  == StartsWith(s, "-")
        body == IF neg THEN SubSeq(s, 2, Len(s)) ELSE s
    IN IF Len(body) > 0 /\ AllDigits(body)
       THEN [exc |-> "", n |-> IF neg THEN 0 - DigitsValue(body, 0) ELSE DigitsValue(body, 0)]
       ELSE [exc |-> "ValueError", n |-> 0]

ToFloat(v) ==
    IF v.t = "number" \/ v.t = "bool" THEN [exc |-> "", n |-> v.n]
    ELSE IF v.t = "string" THEN FloatOfStr(v.s)
    ELSE IF v.t = "bigint" THEN [exc |-> "OverflowError", n |-> 0]
    ELSE [exc |-> "TypeError", n |-> 0]      \* None, list, dict

\* The exceptions the loop body of main() catches around float(value).
CaughtByLoop(exc) == exc = "ValueError" \/ exc = "TypeError"

(***************************************************************************)
(* aggregate_results                                                       *)
(***************************************************************************)
RECURSIVE Gcd(_, _)
Gcd(x, y) == IF y = 0 THEN x ELSE Gcd(y, x % y)

Abs(x) == IF x < 0 THEN 0 - x ELSE x

RECURSIVE SumFrom(_, _, _)
\* sum(values): left to right from 0
SumFrom(vs, i, acc) == IF i > Len(vs) THEN acc ELSE SumFrom(vs, i + 1, acc + vs[i])

PySum(vs) == SumFrom(vs, 1, 0)

RECURSIVE MaxFrom(_, _, _)
\* max(values): the running maximum, replaced only by a strictly larger item
MaxFrom(vs, i, m) ==
    IF i > Len(vs) THEN m ELSE MaxFrom(vs, i + 1, IF vs[i] > m THEN vs[i] ELSE m)

\* A variant of PyMax whose running maximum starts at 0.
PyMax_fromZero(vs) == MaxFrom(vs, 1, 0)

PyMax(vs) == MaxFrom(vs, 2, vs[1])

RECURSIVE MinFrom(_, _, _)
MinFrom(vs, i, m) ==
    IF i > Len(vs) THEN m ELSE MinFrom(vs, i + 1, IF vs[i] < m THEN vs[i] ELSE m)

PyMin(vs) == MinFrom(vs, 2, vs[1])

\* statistics.mean: the exact sum divided by the number of items
PyMean(vs) ==
    LET total == PySum(vs)
        g     == Gcd(Abs(total), Len(vs))
    IN JFrac(total \div g, Len(vs) \div g)

\* A variant of EmptyAggregate that also reports an empty count and values.
EmptyAggregate_withCount ==
    << Member("error", JStr("No valid values found")),
       Member("count", JNum(0)),
       Member("values", JArr(<<>>)) >>

\* The return value of the branch `if not values`
EmptyAggregate == <<Member("error", JStr("No valid values found"))>>

aggregate_results(vs, aggregation) ==
    IF vs = <<>> THEN EmptyAggregate
    ELSE LET r0 == <<>>
             r1 == IF aggregation = "all" \/ aggregation = "avg"
                   THEN DictSet(r0, "avg", PyMean(vs)) ELSE r0
             r2 == IF aggregation = "all" \/ aggregation = "max"
                   THEN DictSet(r1, "max", JNum(PyMax(vs))) ELSE r1
             r3 == IF aggregation = "all" \/ aggregation = "min"
                   THEN DictSet(r2, "min", JNum(PyMin(vs))) ELSE r2
             r4 == IF aggregation = "all" \/ aggregation = "sum"
                   THEN DictSet(r3, "sum", JNum(PySum(vs))) ELSE r3
             r5 == DictSet(r4, "count", JNum(Len(vs)))
         IN DictSet(r5, "values", JArr([i \in 1..Len(vs) |-> JNum(vs[i])]))

(***************************************************************************)
(* The environment save_cli_debug and main() read.                         *)
(***************************************************************************)
Script == "dummy_collector.py"   \* sys.argv[0]
PyVersion == "3.x"               \* sys.version
Cwd == "/work"                   \* Path.cwd()

\* Path.absolute()
Absolute(path) == IF StartsWith(path, "/") THEN path ELSE Cwd \o "/" \o path

(***************************************************************************)
(* save_cli_debug: the lines written to cli.txt                            *)
(***************************************************************************)
\* str() of a list of strings
ReprList(l) == "[" \o Join(", ", [i \in 1..Len(l) |-> "'" \o l[i] \o "'"]) \o "]"

StrOpt(o) == IF o = None THEN "None" ELSE o[1]

StrBool(b) == IF b THEN "True" ELSE "False"

DynamicLines(d) == [i \in 1..Len(d) |-> d[i].k \o ": " \o ReprList(d[i].v)]

CliContent(av, a, output_dir) ==
    << "=== DUMMY COLLECTOR CLI DEBUG ===",
       "Script: " \o Script,
       "Arguments: " \o Join(" ", av),
       "",
       "=== PARSED ARGUMENTS ===",
       "input_pattern: " \o a.input_pattern,
       "output_dir: " \o StrOpt(a.output_dir),
       "metric_key: " \o a.metric_key,
       "aggregation: " \o a.aggregation,
       "debug: " \o StrBool(a.debug),
       "prefix: " \o a.prefix,
       "collector: " \o StrOpt(a.collector),
       "extra: " \o ReprList(a.extra),
       "name: " \o StrOpt(a.name) >>
    \o (IF a.dynamic_args # <<>>
        THEN <<"", "=== DYNAMIC ARGUMENTS ===">> \o DynamicLines(a.dynamic_args)
        ELSE <<>>)
    \o << "",
          "=== ENVIRONMENT ===",
          "Python: " \o PyVersion,
          "Working directory: " \o Cwd,
          "Output directory: " \o Absolute(output_dir) >>

(***************************************************************************)
(* main(): the pieces of its body                                          *)
(***************************************************************************)
\* The error_result of the branch `if not data_files`.
ErrorResult(pattern) ==
    << Member("error", JStr("No data files found with pattern: " \o pattern)),
       Member("pattern_used", JStr(pattern)),
       Member("search_directory", JStr(Absolute(Cwd))) >>

\* A variant of AppendValue that puts the new value first.
AppendValue_front(vs, n) == <<n>> \o vs

\* values.append(numeric_value)
AppendValue(vs, n) == Append(vs, n)

\* One iteration of `for file_path in data_files`: [exc, values, file_info].
\* exc names an exception the iteration lets escape, "" if none.
LoopBody(e, a, vs, info) ==
    LET value == load_result_from_file(e, a.metric_key) IN
    IF value # NA
    THEN LET f == ToFloat(value) IN
         IF f.exc = ""
         THEN [exc |-> "",
               values |-> AppendValue(vs, f.n),
               file_info |-> Append(info, JObj(<<Member("file", JStr(e.path)),
                                                 Member("value", JNum(f.n))>>))]
         ELSE IF CaughtByLoop(f.exc)
         THEN [exc |-> "",
               values |-> vs,
               file_info |-> Append(info, JObj(<<Member("file", JStr(e.path)),
                                                 Member("value", JStr("NA")),
                                                 Member("error", JStr("non-numeric"))>>))]
         ELSE [exc |-> f.exc, values |-> vs, file_info |-> info]
    ELSE [exc |-> "",
          values |-> vs,
          file_info |-> Append(info, JObj(<<Member("file", JStr(e.path)),
                                            Member("value", JStr("NA"))>>))]

RECURSIVE DictUpdate(_, _, _)
\* {**d, **u}
DictUpdate(d, u, i) ==
    IF i > Len(u) THEN d ELSE DictUpdate(DictSet(d, u[i].k, u[i].v), u, i + 1)

\* The result dict before prefixing.
BuildResult(a, info, agg) ==
    DictUpdate(<< Member("aggregation_type", JStr(a.aggregation)),
                  Member("metric_key", JStr(a.metric_key)),
                  Member("input_pattern", JStr(a.input_pattern)),
                  Member("files_processed", JNum(Len(info))),
                  Member("files_details", JArr(info)) >>,
               agg, 1)

Unprefixed == <<"files_details", "input_pattern", "metric_key", "aggregation_type">>

IsUnprefixed(key) == \E i \in 1..Len(Unprefixed) : Unprefixed[i] = key

\* A variant of PrefixedKey that renames every key.
PrefixedKey_all(prefix, key) == prefix \o "_" \o key

\* The key a result entry is written under when a prefix is set.
PrefixedKey(prefix, key) ==
    IF ~IsUnprefixed(key) THEN prefix \o "_" \o key ELSE key

RECURSIVE PrefixFrom(_, _, _, _)
PrefixFrom(res, prefix, i, prefixed_result) ==
    IF i > Len(res) THEN prefixed_result
    ELSE PrefixFrom(res, prefix, i + 1,
                    DictSet(prefixed_result, PrefixedKey(prefix, res[i].k), res[i].v))

\* `if args.prefix:` and the renaming loop
ApplyPrefix(res, prefix) ==
    IF prefix # "" THEN PrefixFrom(res, prefix, 1, <<>>) ELSE res

\* Exit status of an uncaught exception, of SystemExit(message) and of `return 1`.
ExitFailure == Some(1)
ExitSuccess == Some(0)

(***************************************************************************)
(* Actions: the steps of main() in program order                           *)
(***************************************************************************)
\* args = parse_args(); SystemExit when --output_dir is missing
ParseArgs ==
    /\ pc = "start"
    /\ args' = BuildArgs(argv)
    /\ trace' = Append(trace, "parse_args")
    /\ IF OutputDirMissing(args')
       THEN pc' = "exited" /\ exit_code' = ExitFailure
       ELSE pc' = "parsed" /\ exit_code' = exit_code
    /\ UNCHANGED <<argv, glob_result, outdir_exists, cli_txt, data_files, idx,
                   values, file_info, aggregated, result, metrics_json>>

\* output_dir.mkdir(parents=True, exist_ok=True)
MakeOutputDir ==
    /\ pc = "parsed"
    /\ outdir_exists' = TRUE
    /\ trace' = Append(trace, "mkdir")
    /\ pc' = "mkdir_done"
    /\ UNCHANGED <<argv, glob_result, args, cli_txt, data_files, idx, values,
                   file_info, aggregated, result, metrics_json, exit_code>>

\* save_cli_debug(args, output_dir)
SaveCliDebug ==
    /\ pc = "mkdir_done"
    /\ cli_txt' = Some(CliContent(argv, args, args.output_dir[1]))
    /\ trace' = Append(trace, "save_cli_debug")
    /\ pc' = "cli_saved"
    /\ UNCHANGED <<argv, glob_result, args, outdir_exists, data_files, idx, values,
                   file_info, aggregated, result, metrics_json, exit_code>>

\* data_files = find_data_files(...); the `if not data_files` branch writes the
\* error result and returns 1
FindDataFiles ==
    /\ pc = "cli_saved"
    /\ data_files' = find_data_files(glob_result)
    /\ IF data_files' = <<>>
       THEN /\ metrics_json' = Some(ErrorResult(args.input_pattern))
            /\ trace' = trace \o <<"find_data_files", "json.dump">>
            /\ exit_code' = ExitFailure
            /\ pc' = "exited"
       ELSE /\ trace' = Append(trace, "find_data_files")
            /\ pc' = "loop"
            /\ UNCHANGED <<metrics_json, exit_code>>
    /\ UNCHANGED <<argv, glob_result, args, outdir_exists, cli_txt, idx, values,
                   file_info, aggregated, result>>

\* One iteration of the extraction loop; an exception it does not catch ends
\* the process with a traceback.
ExtractNext ==
    /\ pc = "loop"
    /\ idx <= Len(data_files)
    /\ LET r == LoopBody(data_files[idx], args, values, file_info) IN
       /\ values' = r.values
       /\ file_info' = r.file_info
       /\ IF r.exc = ""
          THEN pc' = "loop" /\ exit_code' = exit_code
          ELSE pc' = "exited" /\ exit_code' = ExitFailure
    /\ idx' = idx + 1
    /\ trace' = Append(trace, "load_result_from_file")
    /\ UNCHANGED <<argv, glob_result, args, outdir_exists, cli_txt, data_files,
                   aggregated, result, metrics_json>>

\* After the loop: aggregate, add metadata, prefix, dump, return 0
WriteResult ==
    /\ pc = "loop"
    /\ idx > Len(data_files)
    /\ aggregated' = Some(aggregate_results(values, args.aggregation))
    /\ result' = Some(BuildResult(args, file_info, aggregated'[1]))
    /\ metrics_json' = Some(ApplyPrefix(result'[1], args.prefix))
    /\ trace' = trace \o <<"aggregate_results", "json.dump">>
    /\ exit_code' = ExitSuccess
    /\ pc' = "exited"
    /\ UNCHANGED <<argv, glob_result, args, outdir_exists, cli_txt, data_files, idx,
                   values, file_info>>

Next ==
    \/ ParseArgs
    \/ MakeOutputDir
    \/ SaveCliDebug
    \/ FindDataFiles
    \/ ExtractNext
    \/ WriteResult

(***************************************************************************)
(* Inputs                                                                  *)
(***************************************************************************)
SeqsUpTo(S, n) == UNION {[1..k -> S] : k \in 0..n}

\* Path of the i-th match
PathOf(i) == "dataset" \o Digits[i + 1] \o "/D_data.json"

File(doc) == [is_file |-> TRUE, kind |-> "json", doc |-> doc]

Directory == [is_file |-> FALSE, kind |-> "unreadable", doc |-> JNull]
Unreadable == [is_file |-> TRUE, kind |-> "unreadable", doc |-> JNull]
Malformed == [is_file |-> TRUE, kind |-> "malformed", doc |-> JNull]

Failed == <<Member("error", JStr("computation failed"))>>
NoError == <<Member("error", JNull)>>

MetricValues ==
    {JNum(1), JNum(2), JStr("7"), JStr("-3"), JStr("abc"), JStr("NA"), JNull,
     JArr(<<JNum(1)>>), JBool(TRUE), JBig}

MainContents ==
    {Directory, Unreadable, Malformed, File(JArr(<<JStr("result")>>)), File(JNum(5))}
    \cup {File(JObj(<<Member("result", v)>>)) : v \in MetricValues}
    \cup {File(JObj(<<>>)),
          File(JObj(<<Member("score", JNum(5))>>)),
          File(JObj(<<Member("result", JNum(2))>> \o NoError)),
          File(JObj(Failed)),
          File(JObj(<<Member("result", JNum(3))>> \o Failed)),
          File(JObj(<<Member("result", JStr("invalid"))>> \o Failed))}

WithPaths(contents) ==
    [i \in 1..Len(contents) |->
        [path |-> PathOf(i), is_file |-> contents[i].is_file,
         kind |-> contents[i].kind, doc |-> contents[i].doc]]

MainArgvs ==
    { <<"--output_dir", "out">>,
      <<"--output_dir", "out", "--prefix", "test">>,
      <<"--output_dir", "out", "--aggregation", "avg", "--prefix", "test", "--collector", "yes">>,
      <<"--output_dir", "out", "--metric-key", "score", "--debug">>,
      <<"--input-pattern", "data/*.json", "--output_dir", "/tmp/out", "--aggregation", "sum">>,
      <<>>,
      <<"--output_dir">>,
      <<"--output-dir", "out">> }

InitLocals ==
    /\ pc = "start"
    /\ args = DefaultArgs
    /\ outdir_exists = FALSE
    /\ cli_txt = None
    /\ data_files = <<>>
    /\ idx = 1
    /\ values = <<>>
    /\ file_info = <<>>
    /\ aggregated = None
    /\ result = None
    /\ metrics_json = None
    /\ exit_code = None
    /\ trace = <<>>

Init ==
    /\ argv \in MainArgvs
    /\ \E contents \in SeqsUpTo(MainContents, MaxFiles) : glob_result = WithPaths(contents)
    /\ InitLocals

Spec == Init /\ [][Next]_vars

\* Runs that vary the argument vector: free token sequences, alone and after
\* a valid --output_dir, over a pattern that matches nothing or one file.
ArgTokens == {"--output_dir", "--extra", "--my-flag", "--prefix", "out", "a", ""}

ArgGlobs == {<<>>, <<File(JObj(<<Member("result", JNum(1))>>))>>}

InitArgs ==
    /\ \E rest \in SeqsUpTo(ArgTokens, MaxArgs) :
          argv \in {rest, <<"--output_dir", "out">> \o rest}
    /\ \E contents \in ArgGlobs : glob_result = WithPaths(contents)
    /\ InitLocals

SpecArgs == InitArgs /\ [][Next]_vars

\* Runs that vary the aggregation: every mode, an unknown mode and the
\* default, over files whose metric is a number or that have their error set.
AggArgvs ==
    {<<"--output_dir", "out">>}
    \cup {<<"--output_dir", "out", "--aggregation", mode>> :
             mode \in {"avg", "max", "min", "sum", "all", "median"}}

AggContents ==
    {File(JObj(<<Member("result", JNum(n))>>)) : n \in (0 - MaxValue)..MaxValue}
    \cup {File(JObj(Failed))}

InitAgg ==
    /\ argv \in AggArgvs
    /\ \E contents \in SeqsUpTo(AggContents, MaxLen) : glob_result = WithPaths(contents)
    /\ InitLocals

SpecAgg == InitAgg /\ [][Next]_vars

(***************************************************************************)
(* What the specification says of one discovered file, read off the file   *)
(* itself: the kind of record it yields and, for a valid one, its number.  *)
(***************************************************************************)
\* Decimal rendering of a one-digit integer
IntToStr(n) == (IF n < 0 THEN "-" ELSE "") \o Digits[Abs(n) + 1]

OneDigit == (1 - Len(Digits)) .. (Len(Digits) - 1)

IsNumericStr(s) == \E n \in OneDigit : IntToStr(n) = s

NumberOfStr(s) == CHOOSE n \in OneDigit : IntToStr(n) = s

MembersNamed(doc, key) == {i \in 1..Len(doc.a) : doc.a[i].k = key}

MetricOf(e, key) == e.doc.a[CHOOSE i \in MembersNamed(e.doc, key) : TRUE].v

RecordKind(e, key) ==
    IF e.kind # "json" THEN "unreadable"
    ELSE IF e.doc.t # "object" THEN "not-an-object"
    ELSE IF \E i \in MembersNamed(e.doc, "error") : e.doc.a[i].v.t # "null" THEN "error"
    ELSE IF MembersNamed(e.doc, key) = {} THEN "missing-key"
    ELSE LET v == MetricOf(e, key) IN
         IF v.t \in {"number", "bool"} THEN "valid"
         ELSE IF v.t = "string" /\ IsNumericStr(v.s) THEN "valid"
         ELSE IF v.t = "bigint" THEN "out-of-range"
         ELSE "non-numeric"

RecordNumber(e, key) ==
    LET v == MetricOf(e, key) IN IF v.t = "string" THEN NumberOfStr(v.s) ELSE v.n

IsValid(e) == RecordKind(e, args.metric_key) = "valid"

\* The numbers of the valid records among the discovered files, in discovery order
ValidNumbers ==
    LET valid == SelectSeq(data_files, IsValid)
    IN [i \in 1..Len(valid) |-> RecordNumber(valid[i], args.metric_key)]

JNums(ns) == JArr([i \in 1..Len(ns) |-> JNum(ns[i])])

\* The key a statistic is found under in metrics.json
Written(key) == IF args.prefix = "" THEN key ELSE args.prefix \o "_" \o key

Finished == pc = "exited" /\ metrics_json # None

(***************************************************************************)
(* C1                                                                      *)
(***************************************************************************)
\* C1 as stated: the metrics.json written has count = N and values = the N
\* valid numbers in discovery order (read here for N >= 1 only; for N = 0 the
\* file holds neither key).
C1_AsStated ==
    (Finished /\ Len(ValidNumbers) >= 1) =>
        /\ DictHas(metrics_json[1], "count")
        /\ DictGet(metrics_json[1], "count") = JNum(Len(ValidNumbers))
        /\ DictHas(metrics_json[1], "values")
        /\ DictGet(metrics_json[1], "values") = JNums(ValidNumbers)

\* C1 (amended): when at least one discovered file yields a valid numeric
\* record, the metrics.json written has count = N and values = the N valid
\* numbers in discovery order, under the keys count and values, or P_count and
\* P_values when a key prefix P is set.
C1_CountAndValues ==
    (Finished /\ Len(ValidNumbers) >= 1) =>
        /\ DictHas(metrics_json[1], Written("count"))
        /\ DictGet(metrics_json[1], Written("count")) = JNum(Len(ValidNumbers))
        /\ DictHas(metrics_json[1], Written("values"))
        /\ DictGet(metrics_json[1], Written("values")) = JNums(ValidNumbers)

\* Two valid records whose numbers are not in increasing order, with a prefix.
C1_Witness ==
    /\ Finished
    /\ args.prefix # ""
    /\ Len(ValidNumbers) = 2
    /\ ValidNumbers[1] > ValidNumbers[2]
    /\ DictGet(metrics_json[1], Written("count")) = JNum(2)

(***************************************************************************)
(* C2                                                                      *)
(***************************************************************************)
\* The file is a JSON object with a top-level error member that is not null.
ErrorSet(e) ==
    /\ e.kind = "json"
    /\ e.doc.t = "object"
    /\ \E i \in MembersNamed(e.doc, "error") : e.doc.a[i].v.t # "null"

EntryField(entry, key) == DictGet(entry.a, key)

\* The numbers of the entries of a detail list that belong to files without an
\* error field set, in order.
NumbersOfOthers(details) ==
    LET others == SelectSeq([i \in 1..Len(details) |-> i],
                            LAMBDA i : /\ ~ErrorSet(data_files[i])
                                       /\ EntryField(details[i], "value").t = "number")
    IN [j \in 1..Len(others) |-> EntryField(details[others[j]], "value").n]

\* C2: a file whose object has a non-null error member gets a files_details
\* entry with value "NA" and contributes nothing to values or count, whatever
\* its metric member holds: values and count are made of the other files only.
C2_ErrorFileExcluded ==
    /\ \A i \in 1..Len(file_info) :
          ErrorSet(data_files[i]) =>
              /\ EntryField(file_info[i], "file") = JStr(data_files[i].path)
              /\ EntryField(file_info[i], "value") = JStr("NA")
    /\ values = NumbersOfOthers(file_info)
    /\ (Finished /\ data_files # <<>>) =>
          LET m == metrics_json[1]
              details == DictGet(m, "files_details").a
          IN /\ Len(details) = Len(data_files)
             /\ \A i \in 1..Len(details) :
                   ErrorSet(data_files[i]) =>
                       /\ EntryField(details[i], "file") = JStr(data_files[i].path)
                       /\ EntryField(details[i], "value") = JStr("NA")
             /\ DictHas(m, Written("count")) =>
                   /\ DictGet(m, Written("count")) = JNum(Len(NumbersOfOthers(details)))
                   /\ DictGet(m, Written("values")) = JNums(NumbersOfOthers(details))

\* A finished run over an error file whose metric member is a valid number,
\* next to a file that does count.
C2_Witness ==
    /\ Finished
    /\ \E i \in 1..Len(data_files) :
          /\ ErrorSet(data_files[i])
          /\ MembersNamed(data_files[i].doc, args.metric_key) # {}
          /\ MetricOf(data_files[i], args.metric_key).t = "number"
    /\ DictHas(metrics_json[1], Written("count"))
    /\ DictGet(metrics_json[1], Written("count")) = JNum(1)

(***************************************************************************)
(* C3                                                                      *)
(***************************************************************************)
NoRegularFile == \A i \in 1..Len(glob_result) : ~glob_result[i].is_file

OutputDirGiven == pc # "start" /\ args.output_dir # None /\ args.output_dir # Some("")

Called(name) == \E i \in 1..Len(trace) : trace[i] = name

\* C3: when discovery finds no file and the output directory was given, the
\* run makes no extraction or aggregation call and never gets stuck; it ends
\* by writing a metrics.json that holds error, pattern_used and
\* search_directory, and by exiting with code 1.
C3_NoFilesFound ==
    (NoRegularFile /\ OutputDirGiven) =>
        /\ ~Called("load_result_from_file")
        /\ ~Called("aggregate_results")
        /\ values = <<>> /\ file_info = <<>> /\ aggregated = None
        /\ pc # "exited" => (ENABLED Next /\ metrics_json = None)
        /\ pc = "exited" =>
              /\ metrics_json # None
              /\ DictHas(metrics_json[1], "error")
              /\ DictHas(metrics_json[1], "pattern_used")
              /\ DictGet(metrics_json[1], "pattern_used") = JStr(args.input_pattern)
              /\ DictHas(metrics_json[1], "search_directory")
              /\ trace[Len(trace)] = "json.dump"
              /\ exit_code = Some(1)

\* A finished run whose pattern matched a directory only.
C3_Witness ==
    /\ pc = "exited"
    /\ OutputDirGiven
    /\ NoRegularFile
    /\ glob_result # <<>>
    /\ metrics_json # None
    /\ exit_code = Some(1)

(***************************************************************************)
(* C4                                                                      *)
(***************************************************************************)
StatKeys == {"avg", "max", "min", "sum", "count", "values"}

KeySet(d) == {d[i].k : i \in 1..Len(d)}

\* At least one file was discovered and each is excluded by the error, the
\* missing-key or the non-numeric rule.
AllExcluded ==
    /\ data_files # <<>>
    /\ \A i \in 1..Len(data_files) :
          RecordKind(data_files[i], args.metric_key)
              \in {"error", "missing-key", "non-numeric"}

\* C4 as stated: then the run exits with code 0 and metrics.json holds
\* error: "No valid values found" and none of the statistic keys.
C4_AsStated ==
    (pc = "exited" /\ AllExcluded) =>
        /\ exit_code = Some(0)
        /\ metrics_json # None
        /\ DictHas(metrics_json[1], "error")
        /\ DictGet(metrics_json[1], "error") = JStr("No valid values found")
        /\ KeySet(metrics_json[1]) \cap StatKeys = {}

\* C4 (amended): then the run exits with code 0 and metrics.json holds the run
\* metadata and, as its only other entry, "No valid values found" under the
\* key error, or P_error when a key prefix P is set; no statistic key is
\* present, plain or prefixed.
C4_ErrorOnly ==
    (pc = "exited" /\ AllExcluded) =>
        /\ exit_code = Some(0)
        /\ metrics_json # None
        /\ KeySet(metrics_json[1]) =
              {"aggregation_type", "metric_key", "input_pattern", "files_details",
               Written("files_processed"), Written("error")}
        /\ DictGet(metrics_json[1], Written("error")) = JStr("No valid values found")
        /\ \A k \in StatKeys : /\ ~DictHas(metrics_json[1], k)
                               /\ ~DictHas(metrics_json[1], Written(k))

\* A finished run, with a prefix, over an error file and a non-numeric one.
C4_Witness ==
    /\ pc = "exited"
    /\ AllExcluded
    /\ args.prefix # ""
    /\ \E i, j \in 1..Len(data_files) :
          /\ RecordKind(data_files[i], args.metric_key) = "error"
          /\ RecordKind(data_files[j], args.metric_key) = "non-numeric"
    /\ metrics_json # None

(***************************************************************************)
(* C5                                                                      *)
(***************************************************************************)
KeptPlain == {"files_details", "input_pattern", "metric_key", "aggregation_type"}

\* C5: with a non-empty key prefix P and at least one discovered file, every
\* entry of the result other than the four exempt ones is written as P_<key>
\* and not under its plain name, the four exempt ones are written under their
\* own names, every entry keeps its value, and nothing else is written.
C5_PrefixRenames ==
    (Finished /\ args.prefix # "" /\ data_files # <<>>) =>
        LET m == metrics_json[1]
            r == result[1]
        IN /\ Len(m) = Len(r)
           /\ KeptPlain \subseteq KeySet(r)
           /\ "files_processed" \in KeySet(r)
           /\ \A i \in 1..Len(r) :
                 IF r[i].k \in KeptPlain
                 THEN /\ DictHas(m, r[i].k)
                      /\ DictGet(m, r[i].k) = r[i].v
                 ELSE /\ DictHas(m, args.prefix \o "_" \o r[i].k)
                      /\ DictGet(m, args.prefix \o "_" \o r[i].k) = r[i].v
                      /\ ~DictHas(m, r[i].k)

\* The run of the parameter test: prefix test, mode avg, valid values.
C5_Witness ==
    /\ Finished
    /\ args.prefix = "test"
    /\ DictHas(metrics_json[1], "test_avg")
    /\ DictHas(metrics_json[1], "test_count")
    /\ DictHas(metrics_json[1], "test_files_processed")
    /\ DictHas(metrics_json[1], "aggregation_type")
    /\ ~DictHas(metrics_json[1], "count")

(***************************************************************************)
(* C8                                                                      *)
(***************************************************************************)
\* C8 as stated: no per-file failure aborts the run.  Once files were
\* discovered the process ends only by writing metrics.json and exiting with
\* code 0, files_details holds one entry per discovered file in discovery
\* order, and files_processed is the number of discovered files.
C8_AsStated ==
    (pc = "exited" /\ data_files # <<>>) =>
        /\ exit_code = Some(0)
        /\ metrics_json # None
        /\ LET m == metrics_json[1]
               details == DictGet(m, "files_details").a
           IN /\ Len(details) = Len(data_files)
              /\ \A i \in 1..Len(details) :
                    EntryField(details[i], "file") = JStr(data_files[i].path)
              /\ DictGet(m, Written("files_processed")) = JNum(Len(data_files))

\* The same for the runs none of whose files holds an out-of-range integer.
C8_WithinRange ==
    (pc = "exited" /\ data_files # <<>>
       /\ \A i \in 1..Len(data_files) :
             RecordKind(data_files[i], args.metric_key) # "out-of-range") =>
        /\ exit_code = Some(0)
        /\ metrics_json # None
        /\ DictGet(metrics_json[1], Written("files_processed")) = JNum(Len(data_files))

(***************************************************************************)
(* C6                                                                      *)
(***************************************************************************)
RECURSIVE Total(_)
\* The total of a sequence, from its last item down
Total(vs) == IF vs = <<>> THEN 0 ELSE vs[Len(vs)] + Total(SubSeq(vs, 1, Len(vs) - 1))

Items(vs) == {vs[i] : i \in 1..Len(vs)}

\* C6: for a non-empty values list the mapping aggregate_results returns holds
\* avg iff the mode is avg or all, max iff max or all, min iff min or all, sum
\* iff sum or all; avg times the number of values is their total, max and min
\* are items of the list that bound all the others, sum is the total; count
\* and values are always there and hold the length and the list itself.
C6_Aggregate ==
    (aggregated # None /\ values # <<>>) =>
        LET r == aggregated[1]
            mode == args.aggregation
        IN /\ DictHas(r, "avg") <=> mode \in {"avg", "all"}
           /\ DictHas(r, "max") <=> mode \in {"max", "all"}
           /\ DictHas(r, "min") <=> mode \in {"min", "all"}
           /\ DictHas(r, "sum") <=> mode \in {"sum", "all"}
           /\ DictHas(r, "avg") =>
                 /\ DictGet(r, "avg").t = "number"
                 /\ DictGet(r, "avg").d > 0
                 /\ DictGet(r, "avg").n * Len(values) = DictGet(r, "avg").d * Total(values)
           /\ DictHas(r, "max") =>
                 /\ DictGet(r, "max").d = 1
                 /\ DictGet(r, "max").n \in Items(values)
                 /\ \A v \in Items(values) : v <= DictGet(r, "max").n
           /\ DictHas(r, "min") =>
                 /\ DictGet(r, "min").d = 1
                 /\ DictGet(r, "min").n \in Items(values)
                 /\ \A v \in Items(values) : v >= DictGet(r, "min").n
           /\ DictHas(r, "sum") => DictGet(r, "sum") = JNum(Total(values))
           /\ DictHas(r, "count") /\ DictGet(r, "count") = JNum(Len(values))
           /\ DictHas(r, "values") /\ DictGet(r, "values") = JNums(values)
           /\ KeySet(r) \subseteq StatKeys

\* Mode all over negative values whose mean is not an integer.
C6_Witness ==
    /\ aggregated # None
    /\ args.aggregation = "all"
    /\ Len(values) >= 2
    /\ \A v \in Items(values) : v < 0
    /\ DictGet(aggregated[1], "avg").d > 1
    /\ DictGet(aggregated[1], "max").n > DictGet(aggregated[1], "min").n

(***************************************************************************)
(* C7                                                                      *)
(***************************************************************************)
IsFlag(token) == StartsWith(token, "--")

\* The argument vector gives no output directory: it has no --output_dir
\* token, or the last one is followed by no value.
NoOutputDirValue ==
    \/ \A i \in 1..Len(argv) : argv[i] # "--output_dir"
    \/ LET last == CHOOSE i \in 1..Len(argv) :
                      /\ argv[i] = "--output_dir"
                      /\ \A j \in (i + 1)..Len(argv) : argv[j] # "--output_dir"
       IN last = Len(argv) \/ IsFlag(argv[last + 1])

\* C7: when the output directory is unset after parsing, the process has
\* exited with a non-zero status and parse_args is the only call made: no
\* directory was created, neither cli.txt nor metrics.json was written, and
\* nothing was discovered or read.
C7_NoOutputDir ==
    (pc # "start" /\ (args.output_dir = None \/ NoOutputDirValue)) =>
        /\ args.output_dir = None
        /\ pc = "exited"
        /\ exit_code # None /\ exit_code # Some(0)
        /\ ~outdir_exists
        /\ cli_txt = None
        /\ metrics_json = None
        /\ data_files = <<>> /\ file_info = <<>> /\ values = <<>>
        /\ trace = <<"parse_args">>

\* --output_dir given without a value, after other arguments.
C7_Witness ==
    /\ pc = "exited"
    /\ args.output_dir = None
    /\ Len(argv) >= 2
    /\ argv[Len(argv)] = "--output_dir"
    /\ exit_code = Some(1)

(***************************************************************************)
(* C9                                                                      *)
(***************************************************************************)
RECURSIVE ValuesAfter(_, _, _, _, _)
\* The value tokens that follow the occurrences of a flag, in order
ValuesAfter(av, flag, i, inside, acc) ==
    IF i > Len(av) THEN acc
    ELSE IF IsFlag(av[i]) THEN ValuesAfter(av, flag, i + 1, av[i] = flag, acc)
    ELSE ValuesAfter(av, flag, i + 1, inside, IF inside THEN Append(acc, av[i]) ELSE acc)

\* C9 as stated: the parsed extra list holds the values that follow every
\* occurrence of --extra, in order of appearance.
C9_AsStated ==
    OutputDirGiven => args.extra = ValuesAfter(argv, "--extra", 1, FALSE, <<>>)

(***************************************************************************)
(* C10                                                                     *)
(***************************************************************************)
RecognizedFlags ==
    {"--input-pattern", "--output_dir", "--metric-key", "--aggregation", "--debug",
     "--prefix", "--collector", "--extra", "--name"}

\* Leading dashes stripped, hyphens turned into underscores
Normalized(flag) == Replace(LStrip(flag, "-"), "-", "_")

\* The value tokens that follow the last occurrence of a flag
LastValues(av, flag) ==
    LET last == CHOOSE i \in 1..Len(av) :
                   av[i] = flag /\ \A j \in (i + 1)..Len(av) : av[j] # flag
        stop == IF \E j \in (last + 1)..Len(av) : IsFlag(av[j])
                THEN CHOOSE j \in (last + 1)..Len(av) :
                        IsFlag(av[j]) /\ \A h \in (last + 1)..(j - 1) : ~IsFlag(av[h])
                ELSE Len(av) + 1
    IN SubSeq(av, last + 1, stop - 1)

UnrecognizedFlags == {argv[i] : i \in {j \in 1..Len(argv) :
                                          IsFlag(argv[j]) /\ argv[j] \notin RecognizedFlags}}

\* C10 as stated: every unrecognised flag is in dynamic_args under its name
\* with the leading dashes stripped and hyphens turned into underscores,
\* mapped to the value tokens that followed it.
C10_AsStated ==
    OutputDirGiven =>
        \A flag \in UnrecognizedFlags :
            /\ DictHas(args.dynamic_args, Normalized(flag))
            /\ DictGet(args.dynamic_args, Normalized(flag)) = LastValues(argv, flag)

\* What the code does instead: the entry is stored under the flag as typed.
C10_RawKey ==
    OutputDirGiven =>
        \A flag \in UnrecognizedFlags :
            /\ DictHas(args.dynamic_args, flag)
            /\ DictGet(args.dynamic_args, flag) = LastValues(argv, flag)
            /\ ~DictHas(args.dynamic_args, Normalized(flag))

(***************************************************************************)
(* C11                                                                     *)
(***************************************************************************)
\* The reason tag of a detail entry: its error member, None if it has none
EntryTag(entry) ==
    IF DictHas(entry.a, "error") THEN Some(DictGet(entry.a, "error").s) ELSE None

KindOf(i) == RecordKind(data_files[i], args.metric_key)

\* The entries of a detail list tell a missing key from an unconvertible
\* value: both have value "NA", the unconvertible one carries the tag
\* non-numeric and the missing one does not.
TagsTellKinds(details) ==
    \A i \in 1..Len(details) :
        /\ KindOf(i) = "missing-key" =>
              /\ EntryField(details[i], "value") = JStr("NA")
              /\ EntryTag(details[i]) # Some("non-numeric")
        /\ KindOf(i) = "non-numeric" =>
              /\ EntryField(details[i], "value") = JStr("NA")
              /\ EntryTag(details[i]) = Some("non-numeric")

\* The numbers of the entries of a detail list, in order
NumbersOf(details) ==
    LET nums == SelectSeq(details, LAMBDA e : EntryField(e, "value").t = "number")
    IN [j \in 1..Len(nums) |-> EntryField(nums[j], "value").n]

\* C11 as stated: a discovered file that lacks the metric key, or whose
\* metric value cannot be converted to a number, is excluded from values and
\* gets a files_details entry with value "NA" and the reason tag of its kind,
\* so that the two kinds differ in the detail list.  The missing-key reason
\* is read here as any tag, or none, other than non-numeric.
C11_AsStated ==
    /\ TagsTellKinds(file_info)
    /\ values = NumbersOf(file_info)
    /\ (Finished /\ data_files # <<>>) =>
          TagsTellKinds(DictGet(metrics_json[1], "files_details").a)

\* What the code does: a missing key gives an entry without a tag, and so
\* does a metric that is the string "NA"; every other unconvertible value
\* gives the tag non-numeric.
C11_ExceptSentinel ==
    \A i \in 1..Len(file_info) :
        /\ KindOf(i) = "missing-key" =>
              /\ EntryField(file_info[i], "value") = JStr("NA")
              /\ EntryTag(file_info[i]) = None
        /\ KindOf(i) = "non-numeric" =>
              /\ EntryField(file_info[i], "value") = JStr("NA")
              /\ EntryTag(file_info[i]) =
                    IF MetricOf(data_files[i], args.metric_key) = JStr("NA")
                    THEN None ELSE Some("non-numeric")

====
